---- MODULE Spec2Model ----
(***************************************************************************)
(* Model of the slido-clone backend: the vote / upvote ledger              *)
(* (services/poll_service.py, services/question_service.py), the attendee  *)
(* find-or-create that each handler inlines, and the poll status update.   *)
(*                                                                         *)
(* The store is the default SQLite database (core/database.py): every      *)
(* query reads the committed rows plus the rows the own session has        *)
(* flushed, one connection at a time holds the write lock from its first   *)
(* INSERT/DELETE to its commit or rollback, and a new row gets the id      *)
(* max(id)+1 of its table.  Sessions are made with autoflush=False, so a   *)
(* pending delete is not visible to a later query of the same session.     *)
(*                                                                         *)
(* Spec     : one worker, requests handled one at a time.                  *)
(* SpecCreate : one worker, with polls created on the way.                 *)
(* SpecConc : two workers, each with its own database session, the         *)
(*            database round trips of their handlers interleaved.          *)
(*                                                                         *)
(* The WebSocket hub (api/websocket.py) belongs to one server process, and *)
(* everything in that process runs on one event loop: a handler is only    *)
(* interleaved with other coroutines where it awaits, that is in the sends *)
(* of a broadcast.                                                         *)
(*                                                                         *)
(* SpecHub         : the hub alone, endpoints and callers of a broadcast.  *)
(* SpecQuestionHub : the question handlers with two subscribed clients.    *)
(* SpecPollHub     : the poll handlers with two subscribed clients.        *)
(* SpecSocket      : two subscribed clients that send frames, and          *)
(*                   broadcasts.                                           *)
(* SpecQuestionStall : the question handlers with clients that may stop    *)
(*                   reading; the event loop runs every handler that can   *)
(*                   go on (weak fairness on the steps of a handler).      *)
(***************************************************************************)
EXTENDS Integers, FiniteSets, Sequences, TLC

\* Total number of requests started in a behaviour.
MaxRequests == 4

\* Number of requests started in a behaviour with subscribed clients.
MaxLiveRequests == 2

\* Number of frames the clients send.
MaxFrames == 2

Workers == {1, 2}
Sessions == {"s1", "s2"}

VARIABLES
    polls,           \* table polls: rows [id, event_id, poll_type, status]
    poll_options,    \* table poll_options: rows [id, poll_id, position]
    attendees,       \* table attendees: rows [id, event_id, session_id]
    poll_responses,  \* table poll_responses: rows [id, poll_id, option_id, attendee_id]
    questions,       \* table questions: rows [id, event_id, attendee_id]
    question_votes,  \* table question_votes: rows [id, question_id, attendee_id]
    writer,          \* worker holding the SQLite write lock, 0 when free
    pc,              \* per worker: position in its handler, "idle" between requests
    req,             \* per worker: the request being handled
    loc,             \* per worker: handler locals and the session's unit of work
    last,            \* the most recently completed request and its response
    nreq,            \* number of requests started
    lastVote,        \* history: per (poll, attendee) the option of the last successful vote
    upHist,          \* history: per question the last two committed upvotes, newest first
    reopened,        \* history: the polls that were set from closed to active
    body,            \* the body of the most recent poll results response
    active_connections, \* ConnectionManager: event id -> set of connections
    ws,              \* per connection: position of its endpoint, event, transport state
    inbox,           \* per connection: the frames its client has received, in order
    bc,              \* per worker: the broadcast_to_event call it is suspended in
    clock            \* the event loop's time, read for message timestamps

vars == <<polls, poll_options, attendees, poll_responses, questions,
          question_votes, writer,
          pc, req, loc, last, nreq, lastVote, upHist, reopened, body,
          active_connections, ws, inbox, bc, clock>>

hub == <<active_connections, ws, inbox, bc, clock>>

db == <<polls, poll_options, attendees, poll_responses, questions, question_votes>>
hist == <<lastVote, upHist, reopened>>

----------------------------------------------------------------------------
\* Seed data: two events and the polls their host created.

HostCode1 == "host_aaaaaaaaaaaa"
HostCode2 == "host_bbbbbbbbbbbb"

events == {[id |-> 1, host_code |-> HostCode1],
           [id |-> 2, host_code |-> HostCode2]}

EventIds == {e.id : e \in events}

\* Rows of poll_options; options are fixed when the poll is created.
SeedOptions == {[id |-> 1, poll_id |-> 1, position |-> 0],
               [id |-> 2, poll_id |-> 1, position |-> 1],
               [id |-> 3, poll_id |-> 2, position |-> 0],
               [id |-> 4, poll_id |-> 2, position |-> 1]}

PollStatus == {"draft", "active", "closed"}
PollType == {"single", "multiple"}

SeedPolls == {[id |-> 1, event_id |-> 1, poll_type |-> "single", status |-> "draft"],
              [id |-> 2, event_id |-> 1, poll_type |-> "multiple", status |-> "draft"]}

----------------------------------------------------------------------------
\* Helpers

Max(S) == CHOOSE x \in S : \A y \in S : y <= x

\* INTEGER PRIMARY KEY of a new row: one more than the largest id in the table.
NextId(rows) == IF rows = {} THEN 1 ELSE Max({r.id : r \in rows}) + 1

NoReq == [op |-> "", event_id |-> 0, poll_id |-> 0, option_id |-> 0,
          question_id |-> 0, session_id |-> "", arg |-> "", authorization |-> <<>>]

EmptyLoc == [att |-> 0, flushed |-> {}, del |-> {}, action |-> ""]

\* A response: HTTP status, the error of the taxonomy (empty on success), and of
\* the body the upvote action, the upvote count and the id of a created row.
Response(r, status, error, action, count, id) ==
    [req |-> r, status |-> status, error |-> error, action |-> action,
     count |-> count, id |-> id]

NoResponse == Response(NoReq, 0, "", "", 0, 0)

\* HTTPException raised by a handler: the response carries the status, get_db
\* closes the session, which rolls back whatever it flushed.
Raise(w, status, error) ==
    /\ last' = Response(req[w], status, error, "", 0, 0)
    /\ pc' = [pc EXCEPT ![w] = "idle"]
    /\ req' = [req EXCEPT ![w] = NoReq]
    /\ loc' = [loc EXCEPT ![w] = EmptyLoc]
    /\ writer' = IF writer = w THEN 0 ELSE writer

\* The handler returns normally; get_db closes the session.
Return(w, status, action, count, id) ==
    /\ last' = Response(req[w], status, "", action, count, id)
    /\ pc' = [pc EXCEPT ![w] = "idle"]
    /\ req' = [req EXCEPT ![w] = NoReq]
    /\ loc' = [loc EXCEPT ![w] = EmptyLoc]

Goto(w, label) == pc' = [pc EXCEPT ![w] = label]

\* A request can arrive at an idle worker.
Idle(w) ==
    /\ pc[w] = "idle"
    /\ nreq < MaxRequests

\* The first check of the handler already fails request r.
Reject(w, r, status, error) ==
    /\ last' = Response(r, status, error, "", 0, 0)
    /\ nreq' = nreq + 1
    /\ UNCHANGED <<pc, req, loc, writer>>

\* The handler goes on with request r at label.
Admit(w, r, label) ==
    /\ req' = [req EXCEPT ![w] = r]
    /\ nreq' = nreq + 1
    /\ Goto(w, label)
    /\ UNCHANGED <<last, loc, writer>>

----------------------------------------------------------------------------
\* The WebSocket hub of api/websocket.py: ConnectionManager and
\* websocket_endpoint.  The hub lives in one server process and all of its
\* coroutines run on that process's event loop: a coroutine runs from one
\* await to the next without another one running in between.

\* The WebSocket connections that clients open; each is opened once.  The
\* numbers also give the order in which a set of connections is iterated.
Conns == {1, 2}

\* The slug in the path of a connection; the last one names no event.
Slugs == {"event-1", "event-2", "no-such-event"}

get_event_by_slug_first(event_slug) ==
    CASE event_slug = "event-2" -> 2
      [] OTHER -> 1

\* EventService.get_event_by_slug: the id of the event, 0 for None.
get_event_by_slug(event_slug) ==
    CASE event_slug = "event-1" -> 1
      [] event_slug = "event-2" -> 2
      [] OTHER -> 0

NoData == [json |-> "", type |-> "", timestamp |-> ""]

NoWs == [pc |-> "new", event_slug |-> "", event_id |-> 0, broken |-> FALSE,
         stalled |-> FALSE, close_code |-> 0, frames |-> 0, data |-> NoData]

NoMessage == [type |-> "", id |-> 0, count |-> 0, timestamp |-> 0,
              message |-> "", timestamp_json |-> ""]

\* A frame sent to a client: its type, the id it carries (event, question),
\* the upvote count and the timestamp; an error frame has a message text, and
\* a pong frame has the JSON text of the timestamp it echoes.
Message(type, id, count) ==
    [NoMessage EXCEPT !.type = type, !.id = id, !.count = count]

\* The frames of the broadcast helpers.
BroadcastTypes == {"question_submitted", "question_upvoted", "message"}

\* The state of a broadcast_to_event call: the room's event, the frame, the
\* iterator over the room's set (the size it saw when it was made, the last
\* connection it gave, whether the set it walks was dropped from the map),
\* the connections whose send raised, and what the caller returns afterwards.
\* snap is history: the members when the call was made.
NoBroadcast == [event_id |-> 0, message |-> NoMessage, used |-> 0, pos |-> 0,
                stale |-> FALSE, pending |-> FALSE, disconnected_clients |-> {},
                snap |-> {}, response |-> NoResponse]

HubInit ==
    /\ active_connections = <<>>
    /\ ws = [c \in Conns |-> NoWs]
    /\ inbox = [c \in Conns |-> <<>>]
    /\ bc = [w \in Workers |-> NoBroadcast]
    /\ clock = 0

\* The places where a handler is suspended in an await.
AwaitPoints == {"broadcast_send"}

Suspended(w) == pc[w] \in {"idle"} \cup AwaitPoints

\* The event loop can run worker w: no other handler is between two awaits.
LoopFree(w) == \A v \in Workers \ {w} : Suspended(v)

\* The event loop can run an endpoint coroutine.
LoopIdle == \A v \in Workers : Suspended(v)

Min(S) == CHOOSE x \in S : \A y \in S : x <= y

Room(event_id) ==
    IF event_id \in DOMAIN active_connections
    THEN active_connections[event_id] ELSE {}

\* websocket.send_text: the client gets the frame unless the transport is
\* broken, and then the send raises.
Delivered(c, message) == [inbox EXCEPT ![c] = Append(@, message)]

\* ConnectionManager.connect, after the accept: the room is made on demand.
connect(c, event_id) ==
    IF event_id \in DOMAIN active_connections
    THEN [active_connections EXCEPT ![event_id] = @ \cup {c}]
    ELSE active_connections @@ (event_id :> {c})

disconnect_keep(c, event_id) == UNCHANGED <<active_connections, bc>>

\* ConnectionManager.disconnect: the connection leaves the room and an empty
\* room is deleted.  An iterator over the deleted set is left with a set that
\* is not the room's any more.
disconnect(c, event_id) ==
    IF event_id \notin DOMAIN active_connections
    THEN UNCHANGED <<active_connections, bc>>
    ELSE IF active_connections[event_id] \ {c} # {}
    THEN /\ active_connections' = [active_connections EXCEPT ![event_id] = @ \ {c}]
         /\ UNCHANGED bc
    ELSE /\ active_connections' = [e \in DOMAIN active_connections \ {event_id} |->
                                      active_connections[e]]
         /\ bc' = [w \in Workers |->
                     IF bc[w].event_id = event_id
                     THEN [bc[w] EXCEPT !.stale = TRUE] ELSE bc[w]]

\* The handler's coroutine ends with its response.
Complete(w, response) ==
    /\ last' = response
    /\ pc' = [pc EXCEPT ![w] = "idle"]
    /\ req' = [req EXCEPT ![w] = NoReq]
    /\ loc' = [loc EXCEPT ![w] = EmptyLoc]

\* Slip: the failed connections stay in the room.
Pruned_none(b) == active_connections

\* The end of broadcast_to_event: every connection whose send raised is
\* discarded from the room of the event.
Pruned(b) ==
    [active_connections EXCEPT ![b.event_id] = @ \ b.disconnected_clients]

\* The for statement of broadcast_to_event with iterator state b: the iterator
\* raises RuntimeError when the set has changed size (nothing in the handler
\* catches it, the caller gets a 500), the loop ends when no connection is
\* left, and otherwise the next connection is sent the frame and the coroutine
\* is suspended in that send.  The send raises on a broken transport, and it
\* stays pending when the client does not read.
BroadcastLoop(w, b) ==
    LET ahead == {c \in Room(b.event_id) : c > b.pos}
    IN  IF b.stale \/ Cardinality(Room(b.event_id)) # b.used
        THEN /\ Complete(w, Response(b.response.req, 500, "InternalServerError",
                                     "", 0, 0))
             /\ bc' = [bc EXCEPT ![w] = NoBroadcast]
             /\ UNCHANGED <<active_connections, inbox>>
        ELSE IF ahead = {}
        THEN /\ active_connections' = Pruned(b)
             /\ Complete(w, b.response)
             /\ bc' = [bc EXCEPT ![w] = NoBroadcast]
             /\ UNCHANGED inbox
        ELSE LET c == Min(ahead)
             IN  /\ IF ws[c].broken
                    THEN /\ bc' = [bc EXCEPT ![w] =
                                [b EXCEPT !.pos = c,
                                          !.disconnected_clients = @ \cup {c}]]
                         /\ UNCHANGED inbox
                    ELSE IF ws[c].stalled
                    THEN /\ bc' = [bc EXCEPT ![w] =
                                [b EXCEPT !.pos = c, !.pending = TRUE]]
                         /\ UNCHANGED inbox
                    ELSE /\ bc' = [bc EXCEPT ![w] = [b EXCEPT !.pos = c]]
                         /\ inbox' = Delivered(c, b.message)
                 /\ Goto(w, "broadcast_send")
                 /\ UNCHANGED <<active_connections, last, req, loc>>

\* A broadcast helper and ConnectionManager.broadcast_to_event, up to the first
\* send: the frame gets its timestamp, and nothing is sent when the event has
\* no room.
broadcast_to_event(w, event_id, message, response) ==
    IF event_id \notin DOMAIN active_connections
    THEN /\ Complete(w, response)
         /\ UNCHANGED <<active_connections, inbox, bc, clock>>
    ELSE /\ clock' = clock + 1
         /\ BroadcastLoop(w, [event_id |-> event_id,
                              message |-> [message EXCEPT !.timestamp = clock + 1],
                              used |-> Cardinality(active_connections[event_id]),
                              pos |-> 0,
                              stale |-> FALSE,
                              pending |-> FALSE,
                              disconnected_clients |-> {},
                              snap |-> active_connections[event_id],
                              response |-> response])

\* The send a broadcast is suspended in is over: it went through, or it was
\* pending and raises now that the transport is broken.  Nothing else ends a
\* pending send: send_text is awaited without a timeout.
SendOver(w) == ~bc[w].pending \/ ws[bc[w].pos].broken

\* broadcast_to_event resumed after a send.
broadcast_send(w) ==
    /\ pc[w] = "broadcast_send"
    /\ LoopFree(w)
    /\ SendOver(w)
    /\ BroadcastLoop(w, IF bc[w].pending
                        THEN [bc[w] EXCEPT !.pending = FALSE,
                                           !.disconnected_clients = @ \cup {bc[w].pos}]
                        ELSE bc[w])
    /\ UNCHANGED <<db, hist, writer, nreq, body, ws, clock>>

\* A caller of manager.broadcast_to_event with a frame of its own.
broadcast(w) ==
    /\ Idle(w)
    /\ LoopFree(w)
    /\ nreq' = nreq + 1
    /\ \E e \in EventIds :
         LET r == [NoReq EXCEPT !.op = "broadcast", !.event_id = e]
         IN  broadcast_to_event(w, e, Message("message", 0, 0),
                                Response(r, 200, "", "", 0, 0))
    /\ UNCHANGED <<db, hist, writer, body, ws>>

\* websocket_endpoint up to the accept: the event of the slug is looked up,
\* an unknown slug closes the connection with code 4004.
ws_open(c) ==
    /\ ws[c].pc = "new"
    /\ LoopIdle
    /\ \E event_slug \in Slugs :
         LET event_id == get_event_by_slug(event_slug)
         IN  IF event_id = 0
             THEN ws' = [ws EXCEPT ![c].pc = "closed",
                                   ![c].event_slug = event_slug,
                                   ![c].close_code = 4004]
             ELSE ws' = [ws EXCEPT ![c].pc = "accept",
                                   ![c].event_slug = event_slug,
                                   ![c].event_id = event_id]
    /\ UNCHANGED <<db, hist, writer, pc, req, loc, last, nreq, body,
                   active_connections, inbox, bc, clock>>

\* After the accept: the connection joins the room of its event, is sent the
\* "connected" frame and waits for a frame of its client.  An accept that
\* fails ends the endpoint through its finally clause.
ws_accept(c) ==
    /\ ws[c].pc = "accept"
    /\ LoopIdle
    /\ IF ws[c].broken
       THEN /\ disconnect(c, ws[c].event_id)
            /\ ws' = [ws EXCEPT ![c].pc = "closed"]
            /\ UNCHANGED inbox
       ELSE /\ active_connections' = connect(c, ws[c].event_id)
            /\ inbox' = Delivered(c, Message("connected", ws[c].event_id, 0))
            /\ ws' = [ws EXCEPT ![c].pc = "receive"]
            /\ UNCHANGED bc
    /\ UNCHANGED <<db, hist, writer, pc, req, loc, last, nreq, body, clock>>

\* receive_text raises when the client is gone: the endpoint leaves its loop
\* and its finally clause takes the connection out of the room.
ws_disconnect(c) ==
    /\ ws[c].pc = "receive"
    /\ ws[c].broken
    /\ LoopIdle
    /\ disconnect(c, ws[c].event_id)
    /\ ws' = [ws EXCEPT ![c].pc = "closed"]
    /\ UNCHANGED <<db, hist, writer, pc, req, loc, last, nreq, body, inbox, clock>>

\* The client goes away: the transport of the connection is broken from then
\* on.  The endpoint notices at its next receive, a send raises.
client_close(c) ==
    /\ ws[c].pc \in {"accept", "receive"}
    /\ ~ws[c].broken
    /\ LoopIdle
    /\ ws' = [ws EXCEPT ![c].broken = TRUE]
    /\ UNCHANGED <<db, hist, writer, pc, req, loc, last, nreq, body,
                   active_connections, inbox, bc, clock>>

\* The client stops reading: its connection stays open, but a send to it does
\* not complete any more.
client_stall(c) ==
    /\ ws[c].pc = "receive"
    /\ ~ws[c].broken
    /\ ~ws[c].stalled
    /\ LoopIdle
    /\ ws' = [ws EXCEPT ![c].stalled = TRUE]
    /\ UNCHANGED <<db, hist, writer, pc, req, loc, last, nreq, body,
                   active_connections, inbox, bc, clock>>

\* The JSON numbers a client sends as the timestamp of a ping: an integer, a
\* float, and a decimal with more digits than a float keeps.
TimestampTexts == {"1700000000", "1700000000.5", "1700000000.123456789"}

None == [py |-> "NoneType", repr |-> "None"]

\* json.loads of a JSON number: an int of any size, or the float nearest to the
\* decimal, whose repr has 17 significant digits at most.
json_loads(text) ==
    CASE text = "1700000000" -> [py |-> "int", repr |-> "1700000000"]
      [] text = "1700000000.5" -> [py |-> "float", repr |-> "1700000000.5"]
      [] text = "1700000000.123456789" ->
            [py |-> "float", repr |-> "1700000000.1234567"]

\* json.dumps of a value: None is null, a number is its repr.
json_dumps(value) == IF value.py = "NoneType" THEN "null" ELSE value.repr

\* The text frames of a client: a JSON object with or without a type and a
\* timestamp, JSON that is not an object, and text that is not JSON.
ClientFrames ==
    {[json |-> "object", type |-> t, timestamp |-> ""] : t \in {"join", "leave", ""}}
    \cup {[json |-> "object", type |-> "ping", timestamp |-> t] :
            t \in TimestampTexts \cup {""}}
    \cup {[json |-> j, type |-> "", timestamp |-> ""] : j \in {"array", "invalid"}}

\* message.get(key) of the parsed object: None when the key is absent.
get_type(data) == IF data.type = "" THEN "None" ELSE data.type
get_timestamp(data) ==
    IF data.timestamp = "" THEN None ELSE json_loads(data.timestamp)

\* The frames received on all connections.
FramesReceived ==
    LET sum[S \in SUBSET Conns] ==
            IF S = {} THEN 0
            ELSE LET c == CHOOSE x \in S : TRUE
                 IN  ws[c].frames + sum[S \ {c}]
    IN  sum[Conns]

\* One round of the receive loop on a text frame of the client, with the
\* answer: join and ping are answered, another type and text that is not JSON
\* get an error frame, and any other exception (message.get on a value that
\* is not a dict) leaves the loop, so the finally clause runs.
ws_receive(c) ==
    /\ ws[c].pc = "receive"
    /\ ~ws[c].broken
    /\ ~ws[c].stalled
    /\ LoopIdle
    /\ FramesReceived < MaxFrames
    /\ \E data \in ClientFrames :
         LET got == [ws EXCEPT ![c].frames = @ + 1, ![c].data = data]
             send_to_client(message) ==
                 /\ inbox' = Delivered(c, message)
                 /\ ws' = got
                 /\ UNCHANGED <<active_connections, bc>>
         IN  IF data.json = "invalid"
             THEN send_to_client([Message("error", 0, 0) EXCEPT
                                    !.message = "Invalid JSON format"])
             ELSE IF data.json # "object"
             THEN /\ disconnect(c, ws[c].event_id)
                  /\ ws' = [got EXCEPT ![c].pc = "closed"]
                  /\ UNCHANGED inbox
             ELSE IF data.type = "join"
             THEN send_to_client(Message("joined", ws[c].event_id, 0))
             ELSE IF data.type = "ping"
             THEN send_to_client([Message("pong", 0, 0) EXCEPT
                                    !.timestamp_json = json_dumps(get_timestamp(data))])
             ELSE send_to_client([Message("error", 0, 0) EXCEPT
                                    !.message = "Unknown message type: " \o get_type(data)])
    /\ UNCHANGED <<db, hist, writer, pc, req, loc, last, nreq, body, clock>>

Endpoint(c) ==
    \/ ws_open(c)
    \/ ws_accept(c)
    \/ ws_disconnect(c)
    \/ client_close(c)

----------------------------------------------------------------------------
\* Attendee find-or-create, inlined in each service method.

\* The query: first row with this session id and event id.
AttendeeLookup(w, event_id, found_pc, create_pc) ==
    LET visible == attendees \cup loc[w].flushed
        found == {a \in visible : a.session_id = req[w].session_id /\ a.event_id = event_id}
    IN  IF found # {}
        THEN /\ \E a \in found : loc' = [loc EXCEPT ![w].att = a.id]
             /\ Goto(w, found_pc)
        ELSE /\ loc' = loc
             /\ Goto(w, create_pc)

\* The miss branch: add the attendee and flush it (INSERT, not yet committed).
AttendeeCreate(w, event_id, next_pc) ==
    /\ writer \in {0, w}
    /\ writer' = w
    /\ LET row == [id |-> NextId(attendees), event_id |-> event_id,
                   session_id |-> req[w].session_id]
       IN  loc' = [loc EXCEPT ![w].att = row.id, ![w].flushed = {row}]
    /\ Goto(w, next_pc)

----------------------------------------------------------------------------
\* PollService.vote_on_poll, reached through POST .../polls/{poll_id}/vote.
\* The route's event_id is not used by the handler.

\* Inputs: every option of every poll, and an option id that does not exist;
\* every poll, and one request for a poll id that does not exist.
OptionIdInputs == {o.id : o \in poll_options} \cup {NextId(poll_options)}

VoteRequests ==
    {[NoReq EXCEPT !.op = "vote", !.event_id = p.event_id, !.poll_id = p.id,
                   !.option_id = o, !.session_id = s] :
        p \in polls, o \in OptionIdInputs, s \in Sessions}
    \cup {[NoReq EXCEPT !.op = "vote", !.event_id = 1, !.poll_id = NextId(polls),
                        !.option_id = 1, !.session_id = "s1"]}

PollOf(w) == CHOOSE p \in polls : p.id = req[w].poll_id

\* Slip: a poll that is not closed takes votes, a draft one included.
VotingOpen_notClosed(poll) == poll.status # "closed"

\* The gate of voting: the poll's status is active.
VotingOpen(poll) == poll.status = "active"

\* Look the poll up and check that it is active.
vote_get_poll(w) ==
    /\ Idle(w)
    /\ \E r \in VoteRequests :
         LET found == {p \in polls : p.id = r.poll_id}
         IN  IF found = {}
             THEN Reject(w, r, 404, "NotFound")
             ELSE IF \E p \in found : ~VotingOpen(p)
             THEN Reject(w, r, 400, "InvalidState")
             ELSE Admit(w, r, "vote_attendee")
    /\ UNCHANGED <<db, hist>>
    /\ UNCHANGED <<poll_options, body, hub>>

vote_get_attendee(w) ==
    /\ pc[w] = "vote_attendee"
    /\ AttendeeLookup(w, PollOf(w).event_id, "vote_option", "vote_new_attendee")
    /\ UNCHANGED <<db, hist, writer, req, last, nreq>>
    /\ UNCHANGED <<poll_options, body, hub>>

vote_create_attendee(w) ==
    /\ pc[w] = "vote_new_attendee"
    /\ AttendeeCreate(w, PollOf(w).event_id, "vote_option")
    /\ UNCHANGED <<db, hist, req, last, nreq>>
    /\ UNCHANGED <<poll_options, body, hub>>

\* The option must exist and belong to the poll.
OptionOfPoll_anyPoll(w) == {o \in poll_options : o.id = req[w].option_id}

\* The option of the request, looked up by its id and the poll's id.
OptionOfPoll(w) ==
    {o \in poll_options : o.id = req[w].option_id /\ o.poll_id = req[w].poll_id}

AfterOption_alwaysRemove(poll) == "vote_existing"

\* Only a single-choice poll looks for a response to remove.
AfterOption(poll) ==
    IF poll.poll_type = "single" THEN "vote_existing" ELSE "vote_duplicate"

vote_get_option(w) ==
    /\ pc[w] = "vote_option"
    /\ LET found == OptionOfPoll(w)
       IN  IF found = {}
           THEN Raise(w, 404, "NotFound")
           ELSE /\ Goto(w, AfterOption(PollOf(w)))
                /\ UNCHANGED <<req, loc, last, writer>>
    /\ UNCHANGED <<db, hist, nreq>>
    /\ UNCHANGED <<poll_options, body, hub>>

\* Single choice: the first response of this attendee on the poll is marked
\* for deletion.  Nothing is flushed yet.
\* Slip: the existing response is found but not removed.
SingleChoiceRemoval_keep(w, existing) == loc

SingleChoiceRemoval(w, existing) == [loc EXCEPT ![w].del = {existing.id}]

ExistingResponses_anyAttendee(w) ==
    {r \in poll_responses : r.poll_id = req[w].poll_id}

\* The responses of the attendee on the poll.
ExistingResponses(w) ==
    {r \in poll_responses : r.poll_id = req[w].poll_id
                             /\ r.attendee_id = loc[w].att}

vote_remove_existing(w) ==
    /\ pc[w] = "vote_existing"
    /\ LET found == ExistingResponses(w)
       IN  IF found # {}
           THEN \E existing \in found : loc' = SingleChoiceRemoval(w, existing)
           ELSE loc' = loc
    /\ Goto(w, "vote_duplicate")
    /\ UNCHANGED <<db, hist, req, last, writer, nreq>>
    /\ UNCHANGED <<poll_options, body, hub>>

\* Slip: the duplicate check compares nothing and never finds a row.
DuplicateRows_none(w) == {}

\* Rows the duplicate check finds: the query goes to the database, where a
\* row marked for deletion by this session is still present.
DuplicateRows(w) ==
    {r \in poll_responses : /\ r.poll_id = req[w].poll_id
                            /\ r.option_id = req[w].option_id
                            /\ r.attendee_id = loc[w].att}

vote_check_duplicate(w) ==
    /\ pc[w] = "vote_duplicate"
    /\ IF DuplicateRows(w) # {}
       THEN Raise(w, 400, "DuplicateVote")
       ELSE /\ Goto(w, "vote_commit")
            /\ UNCHANGED <<req, loc, last, writer>>
    /\ UNCHANGED <<db, hist, nreq>>
    /\ UNCHANGED <<poll_options, body, hub>>

\* add(response); commit(): the flush inserts the new row, then deletes the
\* rows marked for deletion (a DELETE that matches no row is not an error).
vote_commit(w) ==
    /\ pc[w] = "vote_commit"
    /\ writer \in {0, w}
    /\ writer' = 0
    /\ LET row == [id |-> NextId(poll_responses), poll_id |-> req[w].poll_id,
                   option_id |-> req[w].option_id, attendee_id |-> loc[w].att]
       IN  /\ poll_responses' =
                 {r \in poll_responses : r.id \notin loc[w].del} \cup {row}
           /\ lastVote' =
                 {v \in lastVote : ~(v.poll_id = row.poll_id
                                     /\ v.attendee_id = row.attendee_id)}
                 \cup {[poll_id |-> row.poll_id, attendee_id |-> row.attendee_id,
                        option_id |-> row.option_id]}
    /\ attendees' = attendees \cup loc[w].flushed
    /\ Return(w, 200, "", 0, 0)
    /\ UNCHANGED <<polls, questions, question_votes, upHist, reopened, nreq>>
    /\ UNCHANGED <<poll_options, body, hub>>

----------------------------------------------------------------------------
\* QuestionService.upvote_question, reached through
\* POST /events/{event_id}/questions/{question_id}/upvote.

\* Inputs: every question under every event id, and one request for a
\* question id that does not exist.
UpvoteRequests ==
    {[NoReq EXCEPT !.op = "upvote", !.event_id = e, !.question_id = q.id,
                   !.session_id = s] :
        e \in EventIds, q \in questions, s \in Sessions}
    \cup {[NoReq EXCEPT !.op = "upvote", !.event_id = 1,
                        !.question_id = NextId(questions), !.session_id = "s1"]}

VotesOn(rows, question_id) == {v \in rows : v.question_id = question_id}

\* The question is looked up by id alone.
upvote_get_question(w) ==
    /\ Idle(w)
    /\ \E r \in UpvoteRequests :
         IF {q \in questions : q.id = r.question_id} = {}
         THEN Reject(w, r, 404, "NotFound")
         ELSE Admit(w, r, "upvote_attendee")
    /\ UNCHANGED <<db, hist>>
    /\ UNCHANGED <<poll_options, body, hub>>

\* The attendee is resolved in the event the route names.
upvote_get_attendee(w) ==
    /\ pc[w] = "upvote_attendee"
    /\ AttendeeLookup(w, req[w].event_id, "upvote_existing", "upvote_new_attendee")
    /\ UNCHANGED <<db, hist, writer, req, last, nreq>>
    /\ UNCHANGED <<poll_options, body, hub>>

upvote_create_attendee(w) ==
    /\ pc[w] = "upvote_new_attendee"
    /\ AttendeeCreate(w, req[w].event_id, "upvote_existing")
    /\ UNCHANGED <<db, hist, req, last, nreq>>
    /\ UNCHANGED <<poll_options, body, hub>>

\* Slip: the existing vote is ignored and every call adds.
ToggleAction_alwaysAdd(found) == "added"

\* The toggle: remove when a vote of this attendee exists, add otherwise.
ToggleAction(found) == IF found # {} THEN "removed" ELSE "added"

upvote_check_existing(w) ==
    /\ pc[w] = "upvote_existing"
    /\ LET found == {v \in question_votes : /\ v.question_id = req[w].question_id
                                            /\ v.attendee_id = loc[w].att}
       IN  IF ToggleAction(found) = "removed"
           THEN \E existing_vote \in found :
                    loc' = [loc EXCEPT ![w].del = {existing_vote.id},
                                       ![w].action = "removed"]
           ELSE loc' = [loc EXCEPT ![w].action = "added"]
    /\ Goto(w, "upvote_commit")
    /\ UNCHANGED <<db, hist, req, last, writer, nreq>>
    /\ UNCHANGED <<poll_options, body, hub>>

\* Slip: removing an upvote deletes every vote of the question.
ToggledVotes_removeAll(w) ==
    IF loc[w].action = "removed"
    THEN {v \in question_votes : v.question_id # req[w].question_id}
    ELSE question_votes \cup {[id |-> NextId(question_votes),
                               question_id |-> req[w].question_id,
                               attendee_id |-> loc[w].att]}

\* The table after the flush: the found vote deleted, or a new vote inserted.
ToggledVotes(w) ==
    IF loc[w].action = "removed"
    THEN {v \in question_votes : v.id \notin loc[w].del}
    ELSE question_votes \cup {[id |-> NextId(question_votes),
                               question_id |-> req[w].question_id,
                               attendee_id |-> loc[w].att]}

upvote_commit(w) ==
    /\ pc[w] = "upvote_commit"
    /\ writer \in {0, w}
    /\ writer' = 0
    /\ LET q == req[w].question_id
       IN  /\ question_votes' = ToggledVotes(w)
           /\ upHist' = [upHist EXCEPT ![q] =
                 SubSeq(<<[att |-> loc[w].att,
                           before |-> VotesOn(question_votes, q)]>> \o @,
                        1, IF Len(@) = 0 THEN 1 ELSE 2)]
    /\ attendees' = attendees \cup loc[w].flushed
    /\ loc' = [loc EXCEPT ![w].flushed = {}, ![w].del = {}]
    /\ Goto(w, "upvote_refresh")
    /\ UNCHANGED <<polls, poll_options, poll_responses, questions, lastVote,
                   reopened, req, last,
                   nreq>>
    /\ UNCHANGED <<poll_options, body, hub>>

\* upvote_count of the refreshed question: the number of its vote rows.
UpvoteCount(question_id) == Cardinality(VotesOn(question_votes, question_id))

\* The refresh ends the service call; the route handler then broadcasts the
\* count to the room of the event in its path and returns the result.
upvote_refresh(w) ==
    /\ pc[w] = "upvote_refresh"
    /\ LET question_id == req[w].question_id
           upvote_count == UpvoteCount(question_id)
       IN  broadcast_to_event(w, req[w].event_id,
                              Message("question_upvoted", question_id, upvote_count),
                              Response(req[w], 200, "", loc[w].action, upvote_count, 0))
    /\ UNCHANGED <<db, hist, writer, nreq, body, ws>>

----------------------------------------------------------------------------
\* QuestionService.submit_question, reached through POST /events/{event_id}/questions.

\* question_text.strip()
Strip(text) == IF text = " " THEN "" ELSE text

\* Inputs: a question text from every session in every event, and one blank text.
SubmitRequests ==
    {[NoReq EXCEPT !.op = "submit", !.event_id = e, !.session_id = s, !.arg = "q"] :
        e \in EventIds, s \in Sessions}
    \cup {[NoReq EXCEPT !.op = "submit", !.event_id = 1, !.session_id = "s1",
                        !.arg = " "]}

submit_validate(w) ==
    /\ Idle(w)
    /\ \E r \in SubmitRequests :
         IF Strip(r.arg) = ""
         THEN Reject(w, r, 422, "ValidationError")
         ELSE Admit(w, r, "submit_attendee")
    /\ UNCHANGED <<db, hist>>
    /\ UNCHANGED <<poll_options, body, hub>>

submit_get_attendee(w) ==
    /\ pc[w] = "submit_attendee"
    /\ AttendeeLookup(w, req[w].event_id, "submit_commit", "submit_new_attendee")
    /\ UNCHANGED <<db, hist, writer, req, last, nreq>>
    /\ UNCHANGED <<poll_options, body, hub>>

submit_create_attendee(w) ==
    /\ pc[w] = "submit_new_attendee"
    /\ AttendeeCreate(w, req[w].event_id, "submit_commit")
    /\ UNCHANGED <<db, hist, req, last, nreq>>
    /\ UNCHANGED <<poll_options, body, hub>>

submit_commit(w) ==
    /\ pc[w] = "submit_commit"
    /\ writer \in {0, w}
    /\ writer' = 0
    /\ LET row == [id |-> NextId(questions), event_id |-> req[w].event_id,
                   attendee_id |-> loc[w].att]
       IN  /\ questions' = questions \cup {row}
           /\ broadcast_to_event(w, req[w].event_id,
                                 Message("question_submitted", row.id, 0),
                                 Response(req[w], 201, "", "", 0, row.id))
    /\ attendees' = attendees \cup loc[w].flushed
    /\ UNCHANGED <<polls, poll_options, poll_responses, question_votes, hist,
                   nreq, body, ws>>

----------------------------------------------------------------------------
\* PUT /events/{event_id}/polls/{poll_id}/status: the route handler and
\* PollService.update_poll_status.  The handler makes one write and commits
\* it at once, so it is a single step.

\* Authorization headers, split at the blank; <<>> is a request without one.
HostHeader(e) == <<"Host", e.host_code>>

BadHeaders == {<<>>, <<"Bearer", HostCode1>>, <<"Host", "host_short">>,
               <<"Host", HostCode2>>}

\* The host codes among the inputs that match ^host_[a-z0-9]{12}$.
validate_host_code(host_code) == host_code \in {HostCode1, HostCode2}

\* The host code of the header, or "" where the handler answers 401.
extract_host_code_from_header(authorization) ==
    IF authorization = <<>> THEN ""
    ELSE IF Len(authorization) # 2 \/ authorization[1] # "Host" THEN ""
    ELSE IF ~validate_host_code(authorization[2]) THEN ""
    ELSE authorization[2]

verify_host_access_anyHost(event_id, host_code) ==
    IF \A e \in events : e.id # event_id THEN "NotFound" ELSE ""

\* The error verify_host_access raises, "" when the host may act on the event.
verify_host_access(event_id, host_code) ==
    LET found == {e \in events : e.id = event_id}
    IN  IF found = {} THEN "NotFound"
        ELSE IF \E e \in found : e.host_code # host_code THEN "Unauthorized"
        ELSE ""

\* Inputs: the host of every event sets every status on every poll and on a
\* poll id that does not exist; event 1 is also named with each header that is
\* not its host's, and an event id that does not exist with a host's header.
StatusRequests ==
    {[NoReq EXCEPT !.op = "status", !.event_id = e.id, !.poll_id = p, !.arg = st,
                   !.authorization = HostHeader(e)] :
        e \in events, p \in {x.id : x \in polls} \cup {NextId(polls)},
        st \in PollStatus}
    \cup {[NoReq EXCEPT !.op = "status", !.event_id = 1, !.poll_id = 1,
                        !.arg = "active", !.authorization = h] : h \in BadHeaders}
    \cup {[NoReq EXCEPT !.op = "status", !.event_id = NextId(events), !.poll_id = 1,
                        !.arg = "active", !.authorization = <<"Host", HostCode1>>]}

set_status_terminal(poll, status) ==
    IF poll.status = "closed" THEN poll ELSE [poll EXCEPT !.status = status]

\* PollService.update_poll_status, the assignment: any of the three values,
\* whatever the status is.
set_status(poll, status) == [poll EXCEPT !.status = status]

with_status_everyPoll(poll, status) == {set_status(p, status) : p \in polls}

\* The table after the commit: the one row has the new status.
with_status(poll, status) == (polls \ {poll}) \cup {set_status(poll, status)}

\* In PollService.update_poll_status the parameter `status` (a str) hides the
\* module fastapi.status, so building the 404 for a poll that is not found
\* raises AttributeError and the request ends with a 500.
update_poll_status(w) ==
    /\ Idle(w)
    /\ nreq' = nreq + 1
    /\ \E r \in StatusRequests :
         LET host_code == extract_host_code_from_header(r.authorization)
             access == IF host_code = "" THEN "Unauthorized"
                       ELSE verify_host_access(r.event_id, host_code)
             found == {p \in polls : p.id = r.poll_id}
         IN  IF access = "Unauthorized"
             THEN /\ last' = Response(r, 401, "Unauthorized", "", 0, 0)
                  /\ UNCHANGED <<polls, reopened>>
             ELSE IF access = "NotFound"
             THEN /\ last' = Response(r, 404, "NotFound", "", 0, 0)
                  /\ UNCHANGED <<polls, reopened>>
             ELSE IF found = {}
             THEN /\ last' = Response(r, 500, "InternalServerError", "", 0, 0)
                  /\ UNCHANGED <<polls, reopened>>
             ELSE \E poll \in found :
                  /\ writer = 0
                  /\ polls' = with_status(poll, r.arg)
                  /\ reopened' = IF poll.status = "closed" /\ r.arg = "active"
                                 THEN reopened \cup {poll.id} ELSE reopened
                  /\ IF poll.event_id # r.event_id
                     THEN last' = Response(r, 404, "NotFound", "", 0, 0)
                     ELSE last' = Response(r, 200, "", "", 0, poll.id)
    /\ UNCHANGED <<attendees, poll_responses, questions, question_votes,
                   lastVote, upHist, writer, pc, req, loc>>
    /\ UNCHANGED <<poll_options, body, hub>>

----------------------------------------------------------------------------
\* POST /events/{event_id}/polls: PollService.create_poll.  The handler makes
\* one commit and has no await, so it is one step.

\* Inputs: the host of every event creates a poll of every type with two
\* options; event 1 is also named with each header that is not its host's,
\* and an event id that does not exist with a host's header.
CreateRequests ==
    {[NoReq EXCEPT !.op = "create", !.event_id = e.id, !.arg = t,
                   !.authorization = HostHeader(e)] : e \in events, t \in PollType}
    \cup {[NoReq EXCEPT !.op = "create", !.event_id = 1, !.arg = "single",
                        !.authorization = h] : h \in BadHeaders}
    \cup {[NoReq EXCEPT !.op = "create", !.event_id = NextId(events), !.arg = "single",
                        !.authorization = <<"Host", HostCode1>>]}

\* The positions of the options of a request.
OptionPositions == {0, 1}

NewPoll_active(id, event_id, poll_type) ==
    [id |-> id, event_id |-> event_id, poll_type |-> poll_type, status |-> "active"]

\* The row of a new poll: the status is the column's default.
NewPoll(id, event_id, poll_type) ==
    [id |-> id, event_id |-> event_id, poll_type |-> poll_type, status |-> "draft"]

\* The rows of the options of a new poll, with the ids the table gives them.
NewOptions(poll_id) ==
    {[id |-> NextId(poll_options) + position, poll_id |-> poll_id,
      position |-> position] : position \in OptionPositions}

create_poll(w) ==
    /\ Idle(w)
    /\ nreq' = nreq + 1
    /\ \E r \in CreateRequests :
         LET host_code == extract_host_code_from_header(r.authorization)
             access == IF host_code = "" THEN "Unauthorized"
                       ELSE verify_host_access(r.event_id, host_code)
             poll == NewPoll(NextId(polls), r.event_id, r.arg)
         IN  IF access = "Unauthorized"
             THEN /\ last' = Response(r, 401, "Unauthorized", "", 0, 0)
                  /\ UNCHANGED <<polls, poll_options>>
             ELSE IF access = "NotFound"
             THEN /\ last' = Response(r, 404, "NotFound", "", 0, 0)
                  /\ UNCHANGED <<polls, poll_options>>
             ELSE /\ writer = 0
                  /\ polls' = polls \cup {poll}
                  /\ poll_options' = poll_options \cup NewOptions(poll.id)
                  /\ last' = Response(r, 201, "", "", 0, poll.id)
    /\ UNCHANGED <<attendees, poll_responses, questions, question_votes,
                   hist, writer, pc, req, loc, body, hub>>

----------------------------------------------------------------------------
\* GET /events/{event_id}/polls/{poll_id}/results: PollService.get_poll_results.
\* The handler only reads; the poll, its options and their responses are read
\* in one step.

\* Inputs: the results of each poll and of a poll that does not exist.
ResultsRequests ==
    {[NoReq EXCEPT !.op = "results", !.event_id = 1, !.poll_id = p] :
        p \in {q.id : q \in polls} \cup {NextId(polls)}}

NoBody == [poll_id |-> 0, total_votes |-> 0, results |-> <<>>]

vote_count_ofPoll(option) ==
    Cardinality({r \in poll_responses : r.poll_id = option.poll_id})

\* PollOption.vote_count: len(self.responses), the rows that name the option.
vote_count(option) ==
    Cardinality({r \in poll_responses : r.option_id = option.id})

\* poll.options: the option rows of a poll, in the order the database returns
\* them (the relationship has no order_by): any order.
OptionOrders(poll_id) ==
    LET rows == {o \in poll_options : o.poll_id = poll_id}
    IN  {s \in [1..Cardinality(rows) -> rows] :
            \A i, j \in DOMAIN s : i # j => s[i] # s[j]}

\* Slip: the larger position first.
PositionBefore_descending(a, b) == a.position > b.position

\* The order of sorted(results, key=lambda x: x["position"]).
PositionBefore(a, b) == a.position < b.position

\* sorted(): stable, an element stays behind the earlier ones it does not precede.
RECURSIVE sorted(_)
sorted(s) ==
    IF s = <<>> THEN <<>>
    ELSE LET rest == sorted(Tail(s))
             k == Cardinality({i \in DOMAIN rest : PositionBefore(rest[i], Head(s))})
         IN  SubSeq(rest, 1, k) \o <<Head(s)>> \o SubSeq(rest, k + 1, Len(rest))

RECURSIVE SumCounts(_)
SumCounts(s) == IF s = <<>> THEN 0 ELSE Head(s).vote_count + SumCounts(Tail(s))

\* Poll.total_votes: the sum of the options' vote counts.
total_votes(results) == SumCounts(results)

get_poll_results(w) ==
    /\ Idle(w)
    /\ nreq' = nreq + 1
    /\ \E r \in ResultsRequests :
         IF \A p \in polls : p.id # r.poll_id
         THEN /\ last' = Response(r, 404, "NotFound", "", 0, 0)
              /\ UNCHANGED body
         ELSE \E options \in OptionOrders(r.poll_id) :
              LET results == [i \in DOMAIN options |->
                                [option_id |-> options[i].id,
                                 vote_count |-> vote_count(options[i]),
                                 position |-> options[i].position]]
              IN  /\ body' = [poll_id |-> r.poll_id,
                              total_votes |-> total_votes(results),
                              results |-> sorted(results)]
                  /\ last' = Response(r, 200, "", "", 0, r.poll_id)
    /\ UNCHANGED <<db, hist, writer, pc, req, loc, hub>>

----------------------------------------------------------------------------
\* Specifications

QuestionIds == 1..MaxRequests

\* The tables and the workers when the server has started.
InitLedger ==
    /\ polls = SeedPolls
    /\ poll_options = SeedOptions
    /\ attendees = {}
    /\ poll_responses = {}
    /\ questions = {}
    /\ question_votes = {}
    /\ writer = 0
    /\ pc = [w \in Workers |-> "idle"]
    /\ req = [w \in Workers |-> NoReq]
    /\ loc = [w \in Workers |-> EmptyLoc]
    /\ last = NoResponse
    /\ nreq = 0
    /\ lastVote = {}
    /\ upHist = [q \in QuestionIds |-> <<>>]
    /\ reopened = {}
    /\ body = NoBody

Init == InitLedger /\ HubInit

\* The server when connections 1 and 2 have been opened for event 1: both are
\* in its room, have been sent "connected" and wait for a frame.
InitSubscribed ==
    /\ InitLedger
    /\ active_connections = (1 :> {1, 2})
    /\ ws = [c \in Conns |-> [NoWs EXCEPT !.pc = "receive",
                                           !.event_slug = "event-1",
                                           !.event_id = 1]]
    /\ inbox = [c \in Conns |-> <<Message("connected", 1, 0)>>]
    /\ bc = [w \in Workers |-> NoBroadcast]
    /\ clock = 0

PollRequest(w) ==
    \/ vote_get_poll(w)
    \/ vote_get_attendee(w)
    \/ vote_create_attendee(w)
    \/ vote_get_option(w)
    \/ vote_remove_existing(w)
    \/ vote_check_duplicate(w)
    \/ vote_commit(w)
    \/ update_poll_status(w)
    \/ get_poll_results(w)

\* A poll from its creation on: created, its status set, voted on.
PollLifecycle(w) ==
    \/ create_poll(w)
    \/ update_poll_status(w)
    \/ vote_get_poll(w)
    \/ vote_get_attendee(w)
    \/ vote_create_attendee(w)
    \/ vote_get_option(w)
    \/ vote_remove_existing(w)
    \/ vote_check_duplicate(w)
    \/ vote_commit(w)

\* The question handlers of api/questions.py, up to their first send.
QuestionRequest(w) ==
    \/ upvote_get_question(w)
    \/ upvote_get_attendee(w)
    \/ upvote_create_attendee(w)
    \/ upvote_check_existing(w)
    \/ upvote_commit(w)
    \/ upvote_refresh(w)
    \/ submit_validate(w)
    \/ submit_get_attendee(w)
    \/ submit_create_attendee(w)
    \/ submit_commit(w)

\* One worker: a request is handled to its end before the next one starts.
Next == PollRequest(1) \/ QuestionRequest(1)
Spec == Init /\ [][Next]_vars

\* One worker, with polls that are created on the way.
NextCreate == PollLifecycle(1)
SpecCreate == Init /\ [][NextCreate]_vars

\* Two workers: the steps of two handlers interleave.
NextConc == \E w \in Workers : PollRequest(w) \/ QuestionRequest(w)
SpecConc == Init /\ [][NextConc]_vars

\* The hub alone, in one process: endpoints and callers of broadcast_to_event.
NextHub ==
    \/ \E w \in Workers : broadcast(w) \/ broadcast_send(w)
    \/ \E c \in Conns : Endpoint(c)
SpecHub == Init /\ [][NextHub]_vars

\* The hub with two subscribed clients that send frames, and broadcasts to
\* the rooms.
NextSocket ==
    \/ \E w \in Workers : nreq < MaxLiveRequests /\ broadcast(w)
    \/ \E w \in Workers : broadcast_send(w)
    \/ \E c \in Conns : ws_receive(c)
SpecSocket == InitSubscribed /\ [][NextSocket]_vars

\* The question handlers and the hub in one process, from the state where two
\* clients have subscribed to event 1: a handler runs without interruption up
\* to its first send and from one send to the next, and the clients may leave.
Scheduled(w) ==
    /\ LoopFree(w)
    /\ pc[w] = "idle" => nreq < MaxLiveRequests

NextQuestionHub ==
    \/ \E w \in Workers : Scheduled(w) /\ upvote_get_question(w)
    \/ \E w \in Workers : Scheduled(w) /\ upvote_get_attendee(w)
    \/ \E w \in Workers : Scheduled(w) /\ upvote_create_attendee(w)
    \/ \E w \in Workers : Scheduled(w) /\ upvote_check_existing(w)
    \/ \E w \in Workers : Scheduled(w) /\ upvote_commit(w)
    \/ \E w \in Workers : Scheduled(w) /\ upvote_refresh(w)
    \/ \E w \in Workers : Scheduled(w) /\ submit_validate(w)
    \/ \E w \in Workers : Scheduled(w) /\ submit_get_attendee(w)
    \/ \E w \in Workers : Scheduled(w) /\ submit_create_attendee(w)
    \/ \E w \in Workers : Scheduled(w) /\ submit_commit(w)
    \/ \E w \in Workers : broadcast_send(w)
    \/ \E c \in Conns : client_close(c) \/ ws_disconnect(c)
SpecQuestionHub == InitSubscribed /\ [][NextQuestionHub]_vars

\* The question handlers with two subscribed clients that may stop reading or
\* go away.
\* The event loop runs every coroutine that can go on, so a handler that has
\* started and is not waiting for a send takes its next step.
NextQuestionStall ==
    \/ \E w \in Workers : Scheduled(w) /\ upvote_get_question(w)
    \/ \E w \in Workers : Scheduled(w) /\ upvote_get_attendee(w)
    \/ \E w \in Workers : Scheduled(w) /\ upvote_create_attendee(w)
    \/ \E w \in Workers : Scheduled(w) /\ upvote_check_existing(w)
    \/ \E w \in Workers : Scheduled(w) /\ upvote_commit(w)
    \/ \E w \in Workers : Scheduled(w) /\ upvote_refresh(w)
    \/ \E w \in Workers : Scheduled(w) /\ submit_validate(w)
    \/ \E w \in Workers : Scheduled(w) /\ submit_get_attendee(w)
    \/ \E w \in Workers : Scheduled(w) /\ submit_create_attendee(w)
    \/ \E w \in Workers : Scheduled(w) /\ submit_commit(w)
    \/ \E w \in Workers : broadcast_send(w)
    \/ \E c \in Conns : client_stall(c)
    \/ \E c \in Conns : client_close(c)
    \/ \E c \in Conns : ws_disconnect(c)

HandlerStep(w) ==
    \/ pc[w] # "idle" /\ LoopFree(w) /\ QuestionRequest(w)
    \/ broadcast_send(w)

SpecQuestionStall ==
    /\ InitSubscribed
    /\ [][NextQuestionStall]_vars
    /\ \A w \in Workers : WF_vars(HandlerStep(w))

\* The poll handlers and the hub in one process, from the same state; no poll
\* handler awaits, so one worker handles the requests.
NextPollHub ==
    \/ PollRequest(1)
    \/ \E c \in Conns : client_close(c) \/ ws_disconnect(c)
SpecPollHub == InitSubscribed /\ [][NextPollHub]_vars

----------------------------------------------------------------------------
\* Properties

\* The step ends a request; last' is then the response to it.
Done ==
    \/ nreq' = nreq + 1 /\ pc' = pc
    \/ \E w \in Workers : pc[w] # "idle" /\ pc'[w] = "idle"

PollById(id) == CHOOSE p \in polls : p.id = id

\* The attendee ids a session token resolves to in an event.
AttendeeIdsOf(session_id, event_id) ==
    {a.id : a \in {x \in attendees : x.session_id = session_id
                                     /\ x.event_id = event_id}}

ResponsesOf(poll_id, attendee_id) ==
    {r \in poll_responses : r.poll_id = poll_id /\ r.attendee_id = attendee_id}

Members(rows) == {v.attendee_id : v \in rows}

\* C1: with requests handled one at a time, a single-choice poll holds at most
\* one response per attendee, and that response is for the option of the
\* attendee's most recent successful vote on the poll.
C1_SingleChoiceLatest ==
    \A p \in polls : \A a \in attendees :
        p.poll_type = "single" =>
            /\ Cardinality(ResponsesOf(p.id, a.id)) <= 1
            /\ \A r \in ResponsesOf(p.id, a.id) :
                   [poll_id |-> p.id, attendee_id |-> a.id,
                    option_id |-> r.option_id] \in lastVote

\* A vote for option 1 was replaced by a vote for option 2: one response, for
\* option 2, is left (counts 0 and 1).
C1_Witness ==
    \E r \in poll_responses :
        /\ poll_responses = {r}
        /\ PollById(r.poll_id).poll_type = "single"
        /\ r.id = 2
        /\ r.option_id = 2
        /\ [poll_id |-> r.poll_id, attendee_id |-> r.attendee_id,
            option_id |-> 2] \in lastVote

\* C2: with two votes of one session on a single-choice poll running
\* concurrently, the committed rows never hold more than one response per
\* (poll, attendee).
C2_OneResponsePerAttendee ==
    \A p \in polls : \A a \in attendees :
        p.poll_type = "single" => Cardinality(ResponsesOf(p.id, a.id)) <= 1

\* C3: on an active multiple-choice poll a vote for a (poll, option, attendee)
\* that already has a response ends with DuplicateVote (400) and leaves the
\* responses unchanged.
C3_DuplicateVoteRejected ==
    [][ (/\ Done
         /\ last'.req.op = "vote"
         /\ \E p \in polls :
              /\ p.id = last'.req.poll_id
              /\ p.poll_type = "multiple"
              /\ p.status = "active"
              /\ \E r \in poll_responses :
                   /\ r.poll_id = p.id
                   /\ r.option_id = last'.req.option_id
                   /\ r.attendee_id \in AttendeeIdsOf(last'.req.session_id, p.event_id))
        => (/\ last'.status = 400
            /\ last'.error = "DuplicateVote"
            /\ poll_responses' = poll_responses) ]_vars

\* A repeated vote on a multiple-choice poll was answered with DuplicateVote and
\* the response it repeats is still there.
C3_Witness ==
    /\ last.req.op = "vote"
    /\ last.error = "DuplicateVote"
    /\ PollById(last.req.poll_id).poll_type = "multiple"
    /\ \E r \in poll_responses :
         /\ r.poll_id = last.req.poll_id
         /\ r.option_id = last.req.option_id
         /\ r.attendee_id \in AttendeeIdsOf(last.req.session_id,
                                            PollById(last.req.poll_id).event_id)

\* C4: with two votes for one (poll, option, attendee) on a multiple-choice
\* poll running concurrently, at most one response for that triple is
\* committed.
C4_OneResponsePerOption ==
    \A r1, r2 \in poll_responses :
        (/\ PollById(r1.poll_id).poll_type = "multiple"
         /\ r1.poll_id = r2.poll_id
         /\ r1.option_id = r2.option_id
         /\ r1.attendee_id = r2.attendee_id) => r1 = r2

C6_UpvoteInvolution ==
    \A q \in questions :
        LET h == upHist[q.id]
            now == VotesOn(question_votes, q.id)
        IN  (Len(h) = 2 /\ h[1].att = h[2].att) =>
                /\ Members(now) = Members(h[2].before)
                /\ Cardinality(now) = Cardinality(h[2].before)

\* An attendee added and removed an upvote on a question that holds the vote of
\* another attendee.
C6_Witness ==
    \E q \in questions :
        LET h == upHist[q.id]
        IN  /\ Len(h) = 2
            /\ h[1].att = h[2].att
            /\ h[2].before # {}
            /\ h[2].att \notin Members(h[2].before)
            /\ h[1].att \in Members(h[1].before)
            /\ pc[1] = "idle"

\* C7: with two upvotes of one session on a question running concurrently, the
\* committed rows never hold more than one vote per (question, attendee).
C7_OneVotePerAttendee ==
    \A v1, v2 \in question_votes :
        (v1.question_id = v2.question_id /\ v1.attendee_id = v2.attendee_id)
            => v1 = v2

\* C8: whatever event ids the upvote requests name, a question holds at most
\* one vote of the attendees of one session token.
C8_OneVotePerToken ==
    \A q \in questions : \A s \in Sessions :
        Cardinality({v \in VotesOn(question_votes, q.id) :
                        \E a \in attendees : a.id = v.attendee_id
                                             /\ a.session_id = s}) <= 1

\* C9: an upvote answers "added" exactly when the attendee had no vote on the
\* question before the call and "removed" exactly when it had one, its
\* upvote_count is the number of votes of the question after the call, and the
\* votes of the other attendees on the question are the same as before.
C9_UpvoteResult ==
    [][ (Done /\ last'.req.op = "upvote" /\ last'.status = 200)
        => LET q == last'.req.question_id
               h == upHist[q][1]
               after == VotesOn(question_votes', q)
               existed == h.att \in Members(h.before)
           IN  /\ last'.action \in {"added", "removed"}
               /\ (last'.action = "added") <=> ~existed
               /\ (last'.action = "removed") <=> existed
               /\ last'.count = Cardinality(after)
               /\ {v \in h.before : v.attendee_id # h.att}
                    = {v \in after : v.attendee_id # h.att} ]_vars

\* Y's upvote follows X's added and removed one: the answer is "added", count 1.
C9_Witness ==
    /\ last.req.op = "upvote"
    /\ last.status = 200
    /\ last.action = "added"
    /\ last.count = 1
    /\ nreq = 4
    /\ LET h == upHist[last.req.question_id]
       IN  /\ Len(h) = 2
           /\ h[1].att # h[2].att
           /\ h[2].att \in Members(h[2].before)
           /\ h[1].before = {}

\* C10: no two attendee rows have the same event and session token.
C10_OneAttendeePerToken ==
    \A a1, a2 \in attendees :
        (a1.event_id = a2.event_id /\ a1.session_id = a2.session_id) => a1 = a2

\* C11: the results of a poll list every option of the poll once with the
\* number of response rows for that option, in ascending position, and the
\* total is the number of response rows for the options of the poll, all over
\* the rows committed when the results are asked for.
C11_ResultsCountsAndOrder ==
    [][(Done /\ last'.req.op = "results" /\ last'.status = 200) =>
         LET rs == body'.results
             options == {o \in poll_options : o.poll_id = last'.req.poll_id}
         IN  /\ body'.poll_id = last'.req.poll_id
             /\ Len(rs) = Cardinality(options)
             /\ \A o \in options : \E i \in DOMAIN rs :
                   /\ rs[i].option_id = o.id
                   /\ rs[i].position = o.position
                   /\ rs[i].vote_count =
                        Cardinality({r \in poll_responses : r.option_id = o.id})
             /\ \A i, j \in DOMAIN rs : i < j => rs[i].position <= rs[j].position
             /\ body'.total_votes =
                  Cardinality({r \in poll_responses :
                                 r.option_id \in {o.id : o \in options}})]_vars

\* Two attendees have voted, one for each option of poll 1, and the results
\* list the options in position order with one vote each.
C11_Witness ==
    /\ last.req.op = "results"
    /\ last.status = 200
    /\ body = [poll_id |-> 1, total_votes |-> 2,
               results |-> <<[option_id |-> 1, vote_count |-> 1, position |-> 0],
                             [option_id |-> 2, vote_count |-> 1, position |-> 1]>>]
    /\ Cardinality(poll_responses) = 2

\* The frames a client has received.
Received(c) == {inbox[c][i] : i \in DOMAIN inbox[c]}

\* The frames a client has received after the step.
ReceivedAfter(c) == {inbox'[c][i] : i \in DOMAIN inbox'[c]}

\* The members of an event's room after the step.
RoomAfter(event_id) ==
    IF event_id \in DOMAIN active_connections'
    THEN active_connections'[event_id] ELSE {}

\* The step ends the broadcast_to_event call of worker w, by a return or by an
\* exception.
BroadcastEnds(w) == pc[w] = "broadcast_send" /\ pc'[w] = "idle"

\* The step sends connection c a frame of a broadcast.
BroadcastFrameTo(c) ==
    /\ Len(inbox'[c]) = Len(inbox[c]) + 1
    /\ inbox'[c][Len(inbox'[c])].type \in BroadcastTypes

\* C12: when a broadcast to an event ends, every connection that was in the
\* event's room when it was issued, is still in it and has a working transport
\* has been sent the frame; and a broadcast frame only ever goes to a member
\* of the room it was issued for.
C12_BroadcastReachesRoom ==
    [][/\ \A w \in Workers : BroadcastEnds(w) =>
             \A c \in bc[w].snap :
                (c \in RoomAfter(bc[w].event_id) /\ ~ws'[c].broken)
                   => bc[w].message \in ReceivedAfter(c)
       /\ \A c \in Conns : BroadcastFrameTo(c) =>
             \E w \in Workers :
                /\ bc'[w].message = inbox'[c][Len(inbox'[c])]
                /\ c \in Room(bc'[w].event_id)
                /\ ws[c].event_id = bc'[w].event_id]_vars

\* C13: a broadcast during which nobody joined or left the room returns
\* normally whatever sends failed; and when a broadcast returns, no connection
\* whose send failed is in the room and every other member it was issued to
\* has been sent the frame.
C13_FailedSendIsolated ==
    [][\A w \in Workers : BroadcastEnds(w) =>
          /\ (~bc[w].stale /\ Room(bc[w].event_id) = bc[w].snap)
                => last' = bc[w].response
          /\ last' = bc[w].response =>
                /\ \A c \in bc[w].disconnected_clients :
                      c \notin RoomAfter(bc[w].event_id)
                /\ \A c \in (bc[w].snap \cap RoomAfter(bc[w].event_id))
                              \ bc[w].disconnected_clients :
                      bc[w].message \in ReceivedAfter(c)]_vars

\* The only broadcast so far went to the room of connections 1 and 2: the send
\* to 1 failed and 1 was taken out of the room while its endpoint still waits,
\* 2 was sent the frame afterwards, and the caller got its response.
C13_Witness ==
    /\ clock = 1
    /\ last.req.op = "broadcast" /\ last.status = 200
    /\ \A w \in Workers : pc[w] = "idle"
    /\ ws[1].broken /\ ws[1].pc = "receive" /\ ws[2].pc = "receive"
    /\ ws[1].event_id = last.req.event_id /\ ws[2].event_id = last.req.event_id
    /\ Room(last.req.event_id) = {2}
    /\ \E m \in Received(2) : m.type = "message" /\ m \notin Received(1)

\* C14: a broadcast never ends with an exception, whatever joins and leaves
\* happen between its sends, and every working connection that was in the room
\* from its start to its end has been sent the frame.
C14_BroadcastSurvivesJoinLeave ==
    [][\A w \in Workers : BroadcastEnds(w) =>
          /\ last'.status # 500
          /\ \A c \in bc[w].snap \cap Room(bc[w].event_id) :
                ~ws[c].broken => bc[w].message \in ReceivedAfter(c)]_vars

\* C15: the room map has no entry whose set of members is empty.
C15_NoEmptyRoom ==
    \A event_id \in DOMAIN active_connections : active_connections[event_id] # {}

\* C16: when a vote has succeeded, every working connection in the room of the
\* poll's event has been sent a vote_updated frame for the poll.
C16_VoteUpdatedBroadcast ==
    [][(Done /\ last'.req.op = "vote" /\ last'.status = 200) =>
          \A c \in RoomAfter(last'.req.event_id) :
             ~ws'[c].broken =>
                \E m \in ReceivedAfter(c) :
                   m.type = "vote_updated" /\ m.id = last'.req.poll_id]_vars

\* C17: when a status update of a poll has succeeded, every working connection
\* in the room of the event has been sent a poll_status_updated frame for the
\* poll.
C17_PollMutationBroadcast ==
    [][(Done /\ last'.req.op = "status" /\ last'.status = 200) =>
          \A c \in RoomAfter(last'.req.event_id) :
             ~ws'[c].broken =>
                \E m \in ReceivedAfter(c) :
                   m.type = "poll_status_updated" /\ m.id = last'.req.poll_id]_vars

\* C18: when the handler of a submitted question ends, every working
\* connection that was in the event's room when the question was announced and
\* still is has got exactly one question_submitted frame with the question's
\* id.
C18_OneFramePerSubmission ==
    [][\A w \in Workers :
          (BroadcastEnds(w) /\ bc[w].message.type = "question_submitted") =>
             \A c \in bc[w].snap \cap RoomAfter(bc[w].event_id) :
                ~ws'[c].broken =>
                   Cardinality({i \in DOMAIN inbox'[c] :
                                  /\ inbox'[c][i].type = "question_submitted"
                                  /\ inbox'[c][i].id = bc[w].message.id}) = 1]_vars

\* The event a question was submitted to.
EventOfQuestion(question_id) ==
    (CHOOSE q \in questions : q.id = question_id).event_id

\* C19: when an upvote has returned its result, every working connection in
\* the room of the question's event has been sent a question_upvoted frame
\* with the question's id and the upvote count of the result.
C19_UpvotedFrameMatchesResult ==
    [][(Done /\ last'.req.op = "upvote" /\ last'.status = 200) =>
          \A c \in RoomAfter(EventOfQuestion(last'.req.question_id)) :
             ~ws'[c].broken =>
                \E m \in ReceivedAfter(c) :
                   /\ m.type = "question_upvoted"
                   /\ m.id = last'.req.question_id
                   /\ m.count = last'.count]_vars

\* C20: a client receives the broadcast frames in the order in which their
\* mutations committed.  A handler stamps its frame in the uninterrupted run
\* in which it commits, so the timestamps are in commit order.
C20_FramesInCommitOrder ==
    \A c \in Conns : \A i, j \in DOMAIN inbox[c] :
       (/\ i < j
        /\ inbox[c][i].type \in BroadcastTypes
        /\ inbox[c][j].type \in BroadcastTypes)
          => inbox[c][i].timestamp < inbox[c][j].timestamp

\* C21: a question handler that has committed and is broadcasting ends with
\* its success response, whatever happens to the sends and the room.
C21_DeliveryNeverFailsCaller ==
    [][\A w \in Workers :
          (BroadcastEnds(w)
             /\ bc[w].message.type \in {"question_submitted", "question_upvoted"})
          => (last'.status \in {200, 201} /\ last' = bc[w].response)]_vars


\* C22: a question handler that has committed and is broadcasting eventually
\* gives its caller the response.
C22_ResponseDoesNotWaitOnDelivery ==
    \A w \in Workers : (pc[w] = "broadcast_send") ~> (pc[w] = "idle")

\* Connection c reads, is in the room of a broadcast in progress and has not
\* had its turn in it.
AwaitsFrame(c) ==
    \E w \in Workers :
       /\ pc[w] = "broadcast_send"
       /\ c \in Room(bc[w].event_id)
       /\ c > bc[w].pos
       /\ ~ws[c].stalled

\* C23: a subscriber that reads does not wait for ever for the frame of a
\* broadcast in progress, whatever becomes of the sends to the subscribers
\* before it.
C23_StalledSendDoesNotBlockOthers ==
    \A c \in Conns : AwaitsFrame(c) ~> ~AwaitsFrame(c)


\* The step is a round of the receive loop of connection c.
FrameReceived(c) == ws'[c].frames = ws[c].frames + 1

\* The frame the step sends connection c, NoMessage when it sends none.
Answer(c) ==
    IF Len(inbox'[c]) > Len(inbox[c]) THEN inbox'[c][Len(inbox'[c])] ELSE NoMessage

\* C24: a join frame is answered with "joined" and the event id, a ping frame
\* with a timestamp is answered with "pong" and the same timestamp.
C24_JoinAndPingAnswered ==
    [][\A c \in Conns :
         (FrameReceived(c) /\ ws'[c].data.json = "object") =>
            /\ ws'[c].data.type = "join" =>
                  (Answer(c).type = "joined" /\ Answer(c).id = ws[c].event_id)
            /\ (ws'[c].data.type = "ping" /\ ws'[c].data.timestamp # "") =>
                  /\ Answer(c).type = "pong"
                  /\ Answer(c).timestamp_json = ws'[c].data.timestamp]_vars

\* C25: a frame that is not a join or a ping is answered with "error", and
\* the connection stays in its room and in its receive loop.
C25_OtherFramesGetError ==
    [][\A c \in Conns :
         (FrameReceived(c)
            /\ ~(ws'[c].data.json = "object" /\ ws'[c].data.type \in {"join", "ping"}))
         => /\ Answer(c).type = "error"
            /\ c \in RoomAfter(ws[c].event_id)
            /\ ws'[c].pc = "receive"]_vars


HostStatusRequest(r) ==
    /\ r.op = "status"
    /\ \E e \in events : e.id = r.event_id /\ r.authorization = <<"Host", e.host_code>>

\* C27: a status update by the event's host on a poll of the event succeeds and
\* makes the requested value the poll's status, whatever the status was; and
\* a vote on a poll that was set from closed back to active and is active is
\* not refused for the poll's state.
C27_AnyStatusFromAnyStatus ==
    [][Done =>
         /\ (HostStatusRequest(last'.req)
               /\ \E p \in polls : p.id = last'.req.poll_id
                                   /\ p.event_id = last'.req.event_id)
            => /\ last'.status = 200
               /\ \E p \in polls' : p.id = last'.req.poll_id
                                    /\ p.status = last'.req.arg
         /\ (last'.req.op = "vote"
               /\ last'.req.poll_id \in reopened
               /\ \E p \in polls : p.id = last'.req.poll_id /\ p.status = "active")
            => last'.error # "InvalidState"]_vars

\* A vote on a poll that was closed and set back to active has been accepted.
C27_Witness ==
    /\ last.req.op = "vote"
    /\ last.req.poll_id \in reopened
    /\ last.status = 200
    /\ \E r \in poll_responses : r.poll_id = last.req.poll_id

\* C29: a status update that names an event and a poll of another event ends
\* with NotFound and leaves the polls as they are.
C29_ForeignPollStatusUntouched ==
    [][(Done /\ HostStatusRequest(last'.req)
          /\ \E p \in polls : p.id = last'.req.poll_id
                              /\ p.event_id # last'.req.event_id)
       => (last'.status = 404 /\ polls' = polls)]_vars

\* C30: a status update by the event's host for a poll id that does not exist
\* ends with NotFound (404) and changes no poll.
C30_UnknownPollNotFound ==
    [][(Done /\ HostStatusRequest(last'.req)
          /\ \A p \in polls : p.id # last'.req.poll_id)
       => (last'.status = 404 /\ last'.error = "NotFound" /\ polls' = polls)]_vars


VoteOnActive(r, poll_type) ==
    /\ r.op = "vote"
    /\ \E p \in polls : /\ p.id = r.poll_id
                        /\ p.poll_type = poll_type
                        /\ p.status = "active"
    /\ \E o \in poll_options : o.id = r.option_id /\ o.poll_id = r.poll_id

\* The responses on a poll of the attendees of the request's session, before
\* and after the step.
HeldBy(r) ==
    {x \in poll_responses :
        /\ x.poll_id = r.poll_id
        /\ x.attendee_id \in AttendeeIdsOf(r.session_id, PollById(r.poll_id).event_id)}

HeldByAfter(r) ==
    {x \in poll_responses' :
        /\ x.poll_id = r.poll_id
        /\ \E a \in attendees' : /\ a.id = x.attendee_id
                                 /\ a.session_id = r.session_id
                                 /\ a.event_id = PollById(r.poll_id).event_id}

\* C32: on an active single-choice poll a vote for the option the attendee
\* holds succeeds and leaves one response of the attendee, for that option.
C32_ReselectPermitted ==
    [][(Done /\ VoteOnActive(last'.req, "single")
          /\ \E x \in HeldBy(last'.req) : x.option_id = last'.req.option_id)
       => /\ last'.status = 200
          /\ Cardinality(HeldByAfter(last'.req)) = 1
          /\ \A x \in HeldByAfter(last'.req) : x.option_id = last'.req.option_id]_vars

\* C33: on an active multiple-choice poll a vote for an option the attendee
\* has not chosen adds one response for that option, keeps every response
\* there was, and leaves the attendee with one response per option at most.
C33_MultipleChoiceAdds ==
    [][(Done /\ VoteOnActive(last'.req, "multiple")
          /\ \A x \in HeldBy(last'.req) : x.option_id # last'.req.option_id)
       => /\ last'.status = 200
          /\ poll_responses \subseteq poll_responses'
          /\ Cardinality(poll_responses' \ poll_responses) = 1
          /\ \A x \in poll_responses' \ poll_responses :
                x.option_id = last'.req.option_id /\ x \in HeldByAfter(last'.req)
          /\ \A x, y \in HeldByAfter(last'.req) :
                x.option_id = y.option_id => x = y]_vars

\* One attendee holds responses for both options of a multiple-choice poll.
C33_Witness ==
    /\ last.req.op = "vote"
    /\ last.status = 200
    /\ PollById(last.req.poll_id).poll_type = "multiple"
    /\ Cardinality({x.option_id : x \in ResponsesOf(last.req.poll_id, 1)}) = 2


\* C35: a vote on an active poll for an option that does not exist or is an
\* option of another poll ends with NotFound (404) and leaves the responses
\* and the attendees as they are.
C35_UnknownOptionPersistsNothing ==
    [][(Done /\ last'.req.op = "vote"
          /\ \E p \in polls : p.id = last'.req.poll_id /\ p.status = "active"
          /\ \A o \in poll_options :
                o.id = last'.req.option_id => o.poll_id # last'.req.poll_id)
       => /\ last'.status = 404
          /\ last'.error = "NotFound"
          /\ poll_responses' = poll_responses
          /\ attendees' = attendees]_vars

\* A vote of a session with no attendee yet, for an option of another poll,
\* was refused: the attendee made for it is not there.
C35_Witness ==
    /\ last.req.op = "vote"
    /\ last.status = 404
    /\ \E p \in polls : p.id = last.req.poll_id /\ p.status = "active"
    /\ \E o \in poll_options : o.id = last.req.option_id /\ o.poll_id # last.req.poll_id
    /\ AttendeeIdsOf(last.req.session_id, PollById(last.req.poll_id).event_id) = {}


\* C37: the option of every response is an option of the response's poll, its
\* attendee is an attendee of the poll's event, and for every poll the sum of
\* the vote counts of its options is the number of responses on the poll.
C37_ResponsesConsistent ==
    /\ \A r \in poll_responses :
          /\ \E o \in poll_options : o.id = r.option_id /\ o.poll_id = r.poll_id
          /\ \E p \in polls :
                /\ p.id = r.poll_id
                /\ \E a \in attendees : a.id = r.attendee_id /\ a.event_id = p.event_id
    /\ \A p \in polls : \A options \in OptionOrders(p.id) :
          total_votes([i \in DOMAIN options |-> [vote_count |-> vote_count(options[i])]])
             = Cardinality({r \in poll_responses : r.poll_id = p.id})

\* A poll created for event 2 holds a response of an attendee of event 2.
C37_Witness ==
    \E r \in poll_responses :
       /\ PollById(r.poll_id).event_id = 2
       /\ \E a \in attendees : a.id = r.attendee_id /\ a.event_id = 2


\* C38: a status update changes nothing but the status of the poll it names:
\* the responses, the options and every other poll are as before, and so are
\* the other columns of the poll.
C38_StatusUpdateFrame ==
    [][(Done /\ last'.req.op = "status")
       => /\ poll_responses' = poll_responses
          /\ poll_options' = poll_options
          /\ Cardinality(polls') = Cardinality(polls)
          /\ \A p \in polls :
                IF p.id = last'.req.poll_id
                THEN \E q \in polls' : q = [p EXCEPT !.status = q.status]
                ELSE p \in polls']_vars

\* A poll that holds a response was closed, and the response is there.
C38_Witness ==
    /\ last.req.op = "status"
    /\ last.status = 200
    /\ last.req.arg = "closed"
    /\ PollById(last.req.poll_id).status = "closed"
    /\ vote_count(CHOOSE o \in poll_options : o.poll_id = last.req.poll_id
                                              /\ o.position = 0) = 1


\* C39: a successful vote of an attendee on a poll leaves the responses of the
\* other attendees on the poll and all responses on the other polls as they
\* are, adds responses of that attendee on that poll only, and on a
\* single-choice poll the number of responses on the poll grows by one at most.
C39_VoteFrame ==
    [][(Done /\ last'.req.op = "vote" /\ last'.status = 200)
       => LET r == last'.req
              mine(x) == x.poll_id = r.poll_id /\ x \in HeldByAfter(r)
              on(rows) == {x \in rows : x.poll_id = r.poll_id}
          IN  /\ \A x \in poll_responses :
                    (x.poll_id # r.poll_id \/ x \notin HeldBy(r)) => x \in poll_responses'
              /\ \A x \in poll_responses' \ poll_responses : mine(x)
              /\ PollById(r.poll_id).poll_type = "single" =>
                    Cardinality(on(poll_responses')) <= Cardinality(on(poll_responses)) + 1]_vars

\* Session s2 voted on a single-choice poll after s1 had: both responses are
\* there.
C39_Witness ==
    /\ last.req.op = "vote"
    /\ last.status = 200
    /\ last.req.session_id = "s2"
    /\ PollById(last.req.poll_id).poll_type = "single"
    /\ Cardinality({x.attendee_id : x \in {y \in poll_responses :
                                           y.poll_id = last.req.poll_id}}) = 2


\* C36: a question_submitted frame is sent only when its question is
\* committed, and a request that ends with an error has sent no frame to any
\* client.
C36_BroadcastOnlyAfterCommit ==
    [][/\ \A c \in Conns :
             Answer(c).type = "question_submitted" =>
                \E q \in questions' : q.id = Answer(c).id
       /\ (Done /\ last'.status >= 400) =>
             /\ inbox' = inbox
             /\ \A w \in Workers : \A c \in Conns :
                   BroadcastEnds(w) => bc[w].message \notin Received(c)]_vars


\* C40: a connection whose endpoint has ended is in no room, and no frame is
\* sent to it from then on.
C40_EndedHandlerLeftRoom ==
    [][\A c \in Conns :
         /\ ws'[c].pc = "closed" => \A e \in EventIds : c \notin RoomAfter(e)
         /\ ws[c].pc = "closed" => inbox'[c] = inbox[c]]_vars

\* Connection 1 was a member of a room and its endpoint has ended; connection
\* 2 is in that room and has been sent a broadcast frame.
C40_Witness ==
    /\ ws[1].pc = "closed"
    /\ inbox[1] # <<>>
    /\ 2 \in Room(ws[1].event_id)
    /\ \E m \in Received(2) : m.type = "message"

====
